---- MODULE Spec2Model ----
(***************************************************************************)
(* The Tauri command layer of src-tauri/src/commands.rs: three async       *)
(* commands, generate_music, interrogate and get_emotions, each of which   *)
(* hands its argument to one function of crate::bridge::musicbrain, awaits *)
(* it, and maps the error of the result to a string.                       *)
(*                                                                         *)
(* An invocation is one call of a command by the host's dispatcher.  Its   *)
(* life is: idle -> awaiting (the command has called the bridge and is     *)
(* suspended at .await) -> completed (the bridge future has an output)     *)
(* -> returned (the command has resumed, applied map_err and returned).    *)
(***************************************************************************)
EXTENDS Naturals, Sequences, FiniteSets

\* Number of invocations the dispatcher runs side by side.
MaxCalls == 2

CallIds == 1..MaxCalls

-----------------------------------------------------------------------------
(* Option<T> and Result<T, E> *)

None == <<>>
Some(x) == <<x>>

Ok(v) == [Ok |-> v]
Err(e) == [Err |-> e]
is_ok(r) == "Ok" \in DOMAIN r
is_err(r) == "Err" \in DOMAIN r

-----------------------------------------------------------------------------
(* The request types *)

EmotionalIntent(core_wound, core_desire, emotional_intent, technical, base_emotion, intensity, specific_emotion) ==
    [core_wound |-> core_wound, core_desire |-> core_desire,
     emotional_intent |-> emotional_intent, technical |-> technical,
     base_emotion |-> base_emotion, intensity |-> intensity,
     specific_emotion |-> specific_emotion]

\* Every field absent.
EmptyIntent == EmotionalIntent(None, None, None, None, None, None, None)

\* The new triad alone.
JoyIntent ==
    EmotionalIntent(None, None, None, None, Some("joy"), Some("high"), None)

\* The legacy field and the new triad together, with different values.
DualIntent ==
    EmotionalIntent(Some("loss"), Some("peace"), Some("melancholy"),
                    Some([tempo |-> "slow"]),
                    Some("joy"), Some("high"), Some("elation"))

GenerateRequest(intent, output_format) ==
    [intent |-> intent, output_format |-> output_format]

GenerateRequests ==
    { GenerateRequest(EmptyIntent, None),
      GenerateRequest(JoyIntent, Some("midi")),
      GenerateRequest(DualIntent, Some("midi")) }

InterrogateRequest(message, session_id, context) ==
    [message |-> message, session_id |-> session_id, context |-> context]

InterrogateRequests ==
    { InterrogateRequest("", None, None),
      InterrogateRequest("", Some("abc"), Some([tempo |-> "slow"])),
      InterrogateRequest("why this chord", None, Some([tempo |-> "slow"])),
      InterrogateRequest("why this chord", Some("abc"), None) }

-----------------------------------------------------------------------------
(* What the bridge can answer *)

\* serde_json::Value results of the bridge.
JsonValues ==
    { [status |-> "ok", track_id |-> "t1"],
      [emotions |-> "joy,grief"] }

\* Errors of the bridge: why the call failed, and the message it carries.
BridgeErrors ==
    { [kind |-> "Internal",  message |-> "catalog unavailable"],
      [kind |-> "Timeout",   message |-> "bridge timed out"],
      [kind |-> "Cancelled", message |-> "request cancelled"] }

BridgeResults == {Ok(v) : v \in JsonValues} \cup {Err(e) : e \in BridgeErrors}

\* Display of the bridge's error type: the message of the error.
Display(e) == e.message

\* e.to_string(): ToString is implemented through Display.
to_string(e) == Display(e)

\* map_err that wraps a success value in an envelope of its own.
map_err_wrapping(r) ==
    IF is_err(r) THEN Err(to_string(r.Err)) ELSE Ok([data |-> r.Ok])

\* map_err that replaces every cause by one fixed message.
map_err_generic(r) == IF is_err(r) THEN Err("bridge call failed") ELSE r

\* map_err that turns a timeout or a cancellation into an empty success.
map_err_masking(r) ==
    IF is_err(r)
    THEN IF r.Err.kind \in {"Timeout", "Cancelled"}
         THEN Ok([status |-> "pending"])
         ELSE Err(to_string(r.Err))
    ELSE r

\* .map_err(|e| e.to_string()): Ok is kept, the error of Err is rendered.
map_err(r) == IF is_err(r) THEN Err(to_string(r.Err)) ELSE r

-----------------------------------------------------------------------------
VARIABLES
    command,       \* command[i]: the command invocation i runs, None when idle
    request,       \* request[i]: the arguments the caller passed to invocation i
    pc,            \* pc[i]: where invocation i is
    bridge_calls,  \* bridge_calls[i]: the bridge calls invocation i has issued
    bridge_result, \* bridge_result[i]: output of i's bridge future, None if pending
    result         \* result[i]: what invocation i returned, None before it returns

vars == <<command, request, pc, bridge_calls, bridge_result, result>>

Init ==
    /\ command = [i \in CallIds |-> None]
    /\ request = [i \in CallIds |-> None]
    /\ pc = [i \in CallIds |-> "idle"]
    /\ bridge_calls = [i \in CallIds |-> <<>>]
    /\ bridge_result = [i \in CallIds |-> None]
    /\ result = [i \in CallIds |-> None]

\* A call of a function of crate::bridge::musicbrain with its arguments.
BridgeCall(op, args) == [op |-> op, args |-> args]

\* generate_music that rejects an intent with no field set before calling
\* the bridge.
generate_music_validating(i, req) ==
    /\ pc[i] = "idle"
    /\ command' = [command EXCEPT ![i] = Some("generate_music")]
    /\ request' = [request EXCEPT ![i] = <<req>>]
    /\ IF req.intent = EmptyIntent
       THEN /\ result' = [result EXCEPT ![i] = Some(Err("intent is empty"))]
            /\ pc' = [pc EXCEPT ![i] = "returned"]
            /\ UNCHANGED <<bridge_calls, bridge_result>>
       ELSE /\ bridge_calls' = [bridge_calls EXCEPT ![i] = Append(@, BridgeCall("generate", <<req>>))]
            /\ pc' = [pc EXCEPT ![i] = "awaiting"]
            /\ UNCHANGED <<bridge_result, result>>

\* generate_music that drops the legacy emotional_intent when base_emotion is
\* present.
generate_music_resolving(i, req) ==
    /\ pc[i] = "idle"
    /\ command' = [command EXCEPT ![i] = Some("generate_music")]
    /\ request' = [request EXCEPT ![i] = <<req>>]
    /\ LET resolved == IF req.intent.base_emotion # None
                       THEN [req EXCEPT !.intent.emotional_intent = None]
                       ELSE req
       IN bridge_calls' = [bridge_calls EXCEPT ![i] = Append(@, BridgeCall("generate", <<resolved>>))]
    /\ pc' = [pc EXCEPT ![i] = "awaiting"]
    /\ UNCHANGED <<bridge_result, result>>

\* generate_music, up to the .await: the dispatcher starts it as invocation i
\* with request req; it calls the bridge's generate with req and suspends.
generate_music(i, req) ==
    /\ pc[i] = "idle"
    /\ command' = [command EXCEPT ![i] = Some("generate_music")]
    /\ request' = [request EXCEPT ![i] = <<req>>]
    /\ bridge_calls' = [bridge_calls EXCEPT ![i] = Append(@, BridgeCall("generate", <<req>>))]
    /\ pc' = [pc EXCEPT ![i] = "awaiting"]
    /\ UNCHANGED <<bridge_result, result>>

\* Resumption that calls the bridge a second time after a first failure.
generate_music_return_retrying(i) ==
    /\ pc[i] = "completed"
    /\ command[i] = Some("generate_music")
    /\ IF is_err(bridge_result[i][1]) /\ Len(bridge_calls[i]) < 2
       THEN /\ bridge_calls' = [bridge_calls EXCEPT ![i] = Append(@, @[1])]
            /\ bridge_result' = [bridge_result EXCEPT ![i] = None]
            /\ pc' = [pc EXCEPT ![i] = "awaiting"]
            /\ UNCHANGED <<command, request, result>>
       ELSE /\ result' = [result EXCEPT ![i] = Some(map_err(bridge_result[i][1]))]
            /\ pc' = [pc EXCEPT ![i] = "returned"]
            /\ UNCHANGED <<command, request, bridge_calls, bridge_result>>

\* Resumption that reads the output of whichever bridge future completed, as
\* with one slot shared by all invocations.
generate_music_return_shared(i) ==
    /\ pc[i] = "completed"
    /\ command[i] = Some("generate_music")
    /\ \E j \in CallIds :
          /\ bridge_result[j] # None
          /\ result' = [result EXCEPT ![i] = Some(map_err(bridge_result[j][1]))]
    /\ pc' = [pc EXCEPT ![i] = "returned"]
    /\ UNCHANGED <<command, request, bridge_calls, bridge_result>>

\* Resumption that waits until no earlier invocation is still awaiting its
\* bridge call, as with a queue of invocations.
generate_music_return_queued(i) ==
    /\ \A j \in CallIds : j < i => pc[j] # "awaiting"
    /\ pc[i] = "completed"
    /\ command[i] = Some("generate_music")
    /\ result' = [result EXCEPT ![i] = Some(map_err(bridge_result[i][1]))]
    /\ pc' = [pc EXCEPT ![i] = "returned"]
    /\ UNCHANGED <<command, request, bridge_calls, bridge_result>>

\* generate_music, from the .await on: invocation i resumes with the output
\* of its bridge future, maps the error and returns.
generate_music_return(i) ==
    /\ pc[i] = "completed"
    /\ command[i] = Some("generate_music")
    /\ result' = [result EXCEPT ![i] = Some(map_err(bridge_result[i][1]))]
    /\ pc' = [pc EXCEPT ![i] = "returned"]
    /\ UNCHANGED <<command, request, bridge_calls, bridge_result>>

\* interrogate that opens a session of its own when session_id is absent.
interrogate_defaulting(i, req) ==
    /\ pc[i] = "idle"
    /\ command' = [command EXCEPT ![i] = Some("interrogate")]
    /\ request' = [request EXCEPT ![i] = <<req>>]
    /\ LET defaulted == IF req.session_id = None
                        THEN [req EXCEPT !.session_id = Some("new")]
                        ELSE req
       IN bridge_calls' = [bridge_calls EXCEPT ![i] = Append(@, BridgeCall("interrogate", <<defaulted>>))]
    /\ pc' = [pc EXCEPT ![i] = "awaiting"]
    /\ UNCHANGED <<bridge_result, result>>

\* interrogate, up to the .await.
interrogate(i, req) ==
    /\ pc[i] = "idle"
    /\ command' = [command EXCEPT ![i] = Some("interrogate")]
    /\ request' = [request EXCEPT ![i] = <<req>>]
    /\ bridge_calls' = [bridge_calls EXCEPT ![i] = Append(@, BridgeCall("interrogate", <<req>>))]
    /\ pc' = [pc EXCEPT ![i] = "awaiting"]
    /\ UNCHANGED <<bridge_result, result>>

\* interrogate, from the .await on.
interrogate_return(i) ==
    /\ pc[i] = "completed"
    /\ command[i] = Some("interrogate")
    /\ result' = [result EXCEPT ![i] = Some(map_err(bridge_result[i][1]))]
    /\ pc' = [pc EXCEPT ![i] = "returned"]
    /\ UNCHANGED <<command, request, bridge_calls, bridge_result>>

\* get_emotions that calls the bridge's generate.
get_emotions_misrouted(i) ==
    /\ pc[i] = "idle"
    /\ command' = [command EXCEPT ![i] = Some("get_emotions")]
    /\ request' = [request EXCEPT ![i] = <<>>]
    /\ bridge_calls' = [bridge_calls EXCEPT ![i] = Append(@, BridgeCall("generate", <<>>))]
    /\ pc' = [pc EXCEPT ![i] = "awaiting"]
    /\ UNCHANGED <<bridge_result, result>>

\* get_emotions, up to the .await: no argument, none passed on.
get_emotions(i) ==
    /\ pc[i] = "idle"
    /\ command' = [command EXCEPT ![i] = Some("get_emotions")]
    /\ request' = [request EXCEPT ![i] = <<>>]
    /\ bridge_calls' = [bridge_calls EXCEPT ![i] = Append(@, BridgeCall("get_emotions", <<>>))]
    /\ pc' = [pc EXCEPT ![i] = "awaiting"]
    /\ UNCHANGED <<bridge_result, result>>

\* get_emotions, from the .await on.
get_emotions_return(i) ==
    /\ pc[i] = "completed"
    /\ command[i] = Some("get_emotions")
    /\ result' = [result EXCEPT ![i] = Some(map_err(bridge_result[i][1]))]
    /\ pc' = [pc EXCEPT ![i] = "returned"]
    /\ UNCHANGED <<command, request, bridge_calls, bridge_result>>

\* The bridge future of invocation i completes with output r.
bridge_complete(i, r) ==
    /\ pc[i] = "awaiting"
    /\ bridge_result' = [bridge_result EXCEPT ![i] = Some(r)]
    /\ pc' = [pc EXCEPT ![i] = "completed"]
    /\ UNCHANGED <<command, request, bridge_calls, result>>

Next ==
    \/ \E i \in CallIds, req \in GenerateRequests : generate_music(i, req)
    \/ \E i \in CallIds : generate_music_return(i)
    \/ \E i \in CallIds, req \in InterrogateRequests : interrogate(i, req)
    \/ \E i \in CallIds : interrogate_return(i)
    \/ \E i \in CallIds : get_emotions(i)
    \/ \E i \in CallIds : get_emotions_return(i)
    \/ \E i \in CallIds, r \in BridgeResults : bridge_complete(i, r)

Spec == Init /\ [][Next]_vars

\* The inputs of the fairness specification: which request is sent and which
\* value or cause the bridge answers with decide no step of a command, only
\* whether the answer is Ok or Err does, so a request of each shape and an
\* answer of each variant are kept.
FairGenerateRequests ==
    { GenerateRequest(EmptyIntent, None),
      GenerateRequest(DualIntent, Some("midi")) }

FairInterrogateRequests ==
    { InterrogateRequest("", None, None),
      InterrogateRequest("why this chord", Some("abc"), None) }

FairBridgeResults ==
    { Ok([status |-> "ok", track_id |-> "t1"]),
      Err([kind |-> "Timeout", message |-> "bridge timed out"]),
      Err([kind |-> "Cancelled", message |-> "request cancelled"]) }

FairNext ==
    \/ \E i \in CallIds, req \in FairGenerateRequests : generate_music(i, req)
    \/ \E i \in CallIds : generate_music_return(i)
    \/ \E i \in CallIds, req \in FairInterrogateRequests : interrogate(i, req)
    \/ \E i \in CallIds : interrogate_return(i)
    \/ \E i \in CallIds : get_emotions(i)
    \/ \E i \in CallIds : get_emotions_return(i)
    \/ \E i \in CallIds, r \in FairBridgeResults : bridge_complete(i, r)

\* The runtime polls an invocation again once its bridge future has completed,
\* so a resumption that stays possible is taken; nothing makes the bridge
\* complete.
FairSpec ==
    /\ Init
    /\ [][FairNext]_vars
    /\ \A i \in CallIds :
          WF_vars(generate_music_return(i) \/ interrogate_return(i) \/ get_emotions_return(i))

-----------------------------------------------------------------------------
Returned(i) == pc[i] = "returned"

\* C1: whichever command it runs, an invocation whose bridge call succeeded
\* with value V returns success carrying exactly V.
C1_SuccessPassThrough ==
    \A i \in CallIds :
        (Returned(i) /\ bridge_result[i] # None /\ is_ok(bridge_result[i][1]))
            => result[i] = Some([Ok |-> bridge_result[i][1].Ok])

C1_Witness ==
    \E i \in CallIds :
        /\ command[i] = Some("generate_music")
        /\ Returned(i)
        /\ bridge_result[i] = Some(Ok([status |-> "ok", track_id |-> "t1"]))
        /\ result[i] = Some(Ok([status |-> "ok", track_id |-> "t1"]))

\* C2: an invocation whose bridge call failed with cause C returns failure
\* carrying the rendering of C; equal causes give equal strings, different
\* renderings stay different, and get_emotions failing with "catalog
\* unavailable" returns "catalog unavailable".
C2_FailureRendering ==
    /\ \A i \in CallIds :
        (Returned(i) /\ bridge_result[i] # None /\ is_err(bridge_result[i][1]))
            => /\ result[i] = Some([Err |-> Display(bridge_result[i][1].Err)])
               /\ (/\ command[i] = Some("get_emotions")
                   /\ bridge_result[i][1].Err.message = "catalog unavailable")
                      => result[i] = Some([Err |-> "catalog unavailable"])
    /\ \A i, j \in CallIds :
        (/\ Returned(i) /\ bridge_result[i] # None /\ is_err(bridge_result[i][1])
         /\ Returned(j) /\ bridge_result[j] # None /\ is_err(bridge_result[j][1]))
            => /\ bridge_result[i] = bridge_result[j] => result[i] = result[j]
               /\ Display(bridge_result[i][1].Err) # Display(bridge_result[j][1].Err)
                      => result[i] # result[j]

C2_Witness ==
    \E i, j \in CallIds :
        /\ command[i] = Some("get_emotions") /\ Returned(i)
        /\ bridge_result[i] = Some(Err([kind |-> "Internal", message |-> "catalog unavailable"]))
        /\ result[i] = Some(Err("catalog unavailable"))
        /\ command[j] = Some("generate_music") /\ Returned(j)
        /\ bridge_result[j] = Some(Err([kind |-> "Timeout", message |-> "bridge timed out"]))
        /\ result[j] = Some(Err("bridge timed out"))

\* C3: generate_music returns failure exactly when its bridge call returned
\* failure, for every request, the one with no optional field set included;
\* it returns nothing the bridge did not decide.
C3_FailsOnlyWithBridge ==
    \A i \in CallIds :
        (command[i] = Some("generate_music") /\ Returned(i))
            => /\ bridge_result[i] # None
               /\ is_err(result[i][1]) <=> is_err(bridge_result[i][1])

C3_Witness ==
    \E i \in CallIds :
        /\ command[i] = Some("generate_music")
        /\ request[i] = <<GenerateRequest(EmptyIntent, None)>>
        /\ Returned(i)
        /\ is_ok(bridge_result[i][1])
        /\ is_ok(result[i][1])

\* C4: the bridge's generate receives the request generate_music was given,
\* equal in every field, the legacy emotional_intent and the new triad both
\* with their original values.
C4_GenerateForwardsRequest ==
    \A i \in CallIds :
        command[i] = Some("generate_music")
            => bridge_calls[i] = <<[op |-> "generate", args |-> request[i]]>>

C4_Witness ==
    \E i \in CallIds :
        /\ command[i] = Some("generate_music")
        /\ request[i] = <<GenerateRequest(DualIntent, Some("midi"))>>
        /\ Len(bridge_calls[i]) = 1
        /\ bridge_calls[i][1].args[1].intent.emotional_intent = Some("melancholy")
        /\ bridge_calls[i][1].args[1].intent.base_emotion = Some("joy")
        /\ bridge_calls[i][1].args[1].intent.intensity = Some("high")
        /\ bridge_calls[i][1].args[1].intent.specific_emotion = Some("elation")

\* C5: the bridge's interrogate receives the message, session_id and context
\* interrogate was given, and two interrogate invocations whose bridge calls
\* gave the same result return the same result, whatever their requests.
C5_InterrogateForwardsRequest ==
    /\ \A i \in CallIds :
        command[i] = Some("interrogate")
            => /\ Len(bridge_calls[i]) = 1
               /\ bridge_calls[i][1].op = "interrogate"
               /\ Len(bridge_calls[i][1].args) = 1
               /\ bridge_calls[i][1].args[1].message = request[i][1].message
               /\ bridge_calls[i][1].args[1].session_id = request[i][1].session_id
               /\ bridge_calls[i][1].args[1].context = request[i][1].context
    /\ \A i, j \in CallIds :
        (/\ command[i] = Some("interrogate") /\ Returned(i)
         /\ command[j] = Some("interrogate") /\ Returned(j)
         /\ bridge_result[i] = bridge_result[j])
            => result[i] = result[j]

C5_Witness ==
    \E i, j \in CallIds :
        /\ command[i] = Some("interrogate") /\ Returned(i)
        /\ command[j] = Some("interrogate") /\ Returned(j)
        /\ request[i] = <<InterrogateRequest("", None, None)>>
        /\ request[j] = <<InterrogateRequest("why this chord", Some("abc"), None)>>
        /\ bridge_calls[i][1].args[1].session_id = None
        /\ bridge_calls[j][1].args[1].session_id = Some("abc")
        /\ bridge_result[i] = bridge_result[j]
        /\ result[i] = result[j]

\* C6: an invocation issues exactly one bridge call, also when the call fails,
\* and after a failed call it returns failure.
C6_SingleBridgeCall ==
    \A i \in CallIds :
        /\ Len(bridge_calls[i]) = (IF pc[i] = "idle" THEN 0 ELSE 1)
        /\ (Returned(i) /\ bridge_result[i] # None /\ is_err(bridge_result[i][1]))
              => is_err(result[i][1])
        /\ pc[i] = "awaiting" => (bridge_result[i] = None /\ result[i] = None)

C6_Witness ==
    \E i \in CallIds :
        /\ Returned(i)
        /\ is_err(bridge_result[i][1])
        /\ is_err(result[i][1])
        /\ Len(bridge_calls[i]) = 1

\* C7: in every interleaving, the step in which an invocation returns gives it
\* the result of its own bridge call and leaves every other invocation as it
\* was; an invocation that starts finds nothing of an earlier one.
C7_Isolation ==
    [][\A i \in CallIds :
        /\ (pc[i] # "returned" /\ pc'[i] = "returned")
              => /\ bridge_result[i] # None
                 /\ result'[i] =
                      Some(IF is_ok(bridge_result[i][1])
                           THEN bridge_result[i][1]
                           ELSE [Err |-> bridge_result[i][1].Err.message])
                 /\ \A j \in CallIds \ {i} :
                      /\ command'[j] = command[j] /\ request'[j] = request[j]
                      /\ pc'[j] = pc[j] /\ bridge_calls'[j] = bridge_calls[j]
                      /\ bridge_result'[j] = bridge_result[j]
                      /\ result'[j] = result[j]
        /\ (pc[i] = "idle" /\ pc'[i] # "idle")
              => /\ bridge_result'[i] = None
                 /\ result'[i] = None
                 /\ Len(bridge_calls'[i]) = 1
      ]_vars

C7_Witness ==
    \E i, j \in CallIds :
        /\ i # j
        /\ Returned(i) /\ Returned(j)
        /\ command[i] = Some("generate_music") /\ command[j] = Some("generate_music")
        /\ is_ok(bridge_result[i][1]) /\ is_err(bridge_result[j][1])
        /\ is_ok(result[i][1]) /\ is_err(result[j][1])

\* C8: an invocation whose bridge call ended in a timeout or a cancellation
\* returns failure carrying the rendering of that failure, never success.
C8_TimeoutPropagates ==
    \A i \in CallIds :
        (/\ Returned(i)
         /\ bridge_result[i] # None
         /\ is_err(bridge_result[i][1])
         /\ bridge_result[i][1].Err.kind \in {"Timeout", "Cancelled"})
            => /\ ~ is_ok(result[i][1])
               /\ is_err(result[i][1])
               /\ result[i][1].Err = Display(bridge_result[i][1].Err)

C8_Witness ==
    \E i \in CallIds :
        /\ Returned(i)
        /\ bridge_result[i] = Some(Err([kind |-> "Cancelled", message |-> "request cancelled"]))
        /\ result[i] = Some(Err("request cancelled"))

\* C9: an invocation has returned only if its bridge call has completed; once
\* its bridge call has completed it returns, whatever the other invocations
\* do, those whose bridge call never completes included; and its resumption
\* waits on nothing else.
C9_ReturnsAfterBridge ==
    /\ [](\A i \in CallIds : Returned(i) => bridge_result[i] # None)
    /\ \A i \in CallIds : (pc[i] = "completed") ~> Returned(i)

C9_Witness ==
    \E i, j \in CallIds :
        /\ Returned(i)
        /\ bridge_result[i] # None
        /\ pc[j] = "awaiting"
        /\ command[i] = Some("generate_music")

\* C10: every bridge call of an invocation is to the bridge function of its
\* own command, and get_emotions passes no argument.
C10_OwnBridgeOperation ==
    \A i \in CallIds :
        \A k \in 1..Len(bridge_calls[i]) :
            /\ command[i] = Some("generate_music") => bridge_calls[i][k].op = "generate"
            /\ command[i] = Some("interrogate") => bridge_calls[i][k].op = "interrogate"
            /\ command[i] = Some("get_emotions")
                  => /\ bridge_calls[i][k].op = "get_emotions"
                     /\ bridge_calls[i][k].args = <<>>

C10_Witness ==
    \E i, j \in CallIds :
        /\ command[i] = Some("get_emotions")
        /\ bridge_calls[i] = <<[op |-> "get_emotions", args |-> <<>>]>>
        /\ command[j] = Some("interrogate")
        /\ bridge_calls[j][1].op = "interrogate"

====
